---- MODULE Spec2Model ----
(***************************************************************************)
(* Model of hebbian-ai.py: a single bot foraging for rewards on a toroidal *)
(* grid.  The module-level script is modelled statement group by statement *)
(* group: the reward scatter (lines 26-30), then the game loop (lines      *)
(* 43-115) and pygame.quit (line 117).  pc names the next statement group. *)
(***************************************************************************)
EXTENDS Integers, Sequences, FiniteSets, TLC

\* Game parameters (lines 14-18), scaled down so that the state space is
\* finite and small.  The source values are 100, 7 and 400.
WORLD_SIZE == 2

VISION_SIZE == 3

REWARD_AMOUNT == 4

BOT_VISION_RANGE == VISION_SIZE \div 2

\* Number of calls the scripted stub policy of the ordering scenario answers.
StubCalls == 5

\* The values ai_bot.choose_action may hand back.  AI_Bot is an opaque
\* collaborator: the four recognised movements and one unrecognised value.
Movements == {0, 1, 2, 3}

PolicyOutputs == Movements \cup {7}

\* movement before the first call of choose_action (the name is unbound).
NoMovement == -1

VARIABLES
    world_size,     \* the grid size in force (WORLD_SIZE, line 14)
    world,          \* world[<<y, x>>] \in {0, 1}: the numpy array
    n,              \* iterations of the scatter loop done so far
    bot_x, bot_y,   \* bot position
    running,        \* loop flag
    vision,         \* vision[<<i, j>>]: the 2-D observation
    vision_flat,    \* vision.flatten()
    reward,         \* reward signal of the current tick
    movement,       \* last value returned by choose_action
    pc,             \* next statement group
    calls,          \* the scripted stub policy's count of calls so far
    \* history variables (not program state)
    init_count,     \* number of reward cells when the scatter loop ended
    world0,         \* world when the current tick computed its vision
    last_x, last_y, \* bot position before the most recent position update
    last_movement,  \* movement applied by the most recent position update
    stop_seen,      \* a QUIT event has been taken from the event queue
    queries,        \* calls of choose_action in the current loop iteration
    after_stop,     \* reward checks, choose_action calls and position
                    \* updates executed since the QUIT event was seen
    \* history variables written only under TrackSpec
    prev_x, prev_y, \* bot position before the position update before that
    prev_movement,  \* movement applied by the position update before that
    \* output written only under RenderSpec
    shown           \* what the last drawing step put on the screen

vars == <<world_size, calls, world, n, bot_x, bot_y, running, vision,
          vision_flat, reward, movement, pc, init_count, world0, last_x, last_y, last_movement,
          prev_x, prev_y, prev_movement, stop_seen, queries, after_stop,
          shown>>

hist == <<init_count, world0, last_x, last_y, last_movement,
          prev_x, prev_y, prev_movement>>

\* Grid coordinates and cells.  A cell is indexed <<y, x>> as in world[y, x].
Coords == 0 .. (world_size - 1)

Cells == Coords \X Coords

VisionIdx == 0 .. (VISION_SIZE - 1)

\* np.argwhere(world == 1) and its size.
RewardCells(w) == {c \in Cells : w[c] = 1}

RewardCount(w) == Cardinality(RewardCells(w))

EmptyCells(w) == {c \in Cells : w[c] = 0}

\* Lines 20-41: state after construction, before the scatter loop.
Init ==
    /\ world_size = WORLD_SIZE
    /\ calls = 0
    /\ world = [c \in Cells |-> 0]
    /\ n = 0
    /\ bot_x = 1
    /\ bot_y = 1
    /\ running = TRUE
    /\ vision = [p \in VisionIdx \X VisionIdx |-> 0]
    /\ vision_flat = << >>
    /\ reward = 0
    /\ movement = NoMovement
    /\ pc = "spawn"
    /\ init_count = 0
    /\ world0 = [c \in Cells |-> 0]
    /\ last_x = 1
    /\ last_y = 1
    /\ last_movement = NoMovement
    /\ prev_x = 1
    /\ prev_y = 1
    /\ prev_movement = NoMovement
    /\ stop_seen = FALSE
    /\ queries = 0
    /\ after_stop = [checks |-> 0, queries |-> 0, moves |-> 0]
    /\ shown = [drawn |-> FALSE,
                rewards |-> {},
                bot |-> <<1, 1>>,
                field |-> [p \in VisionIdx \X VisionIdx |-> <<0, 0>>],
                vision |-> [p \in VisionIdx \X VisionIdx |-> 0]]

\* Variant of SpawnReward: the cell is incremented instead of set.
SpawnReward_Accumulates ==
    /\ pc = "spawn"
    /\ n < REWARD_AMOUNT
    /\ \E x \in Coords, y \in Coords :
          world' = [world EXCEPT ![<<y, x>>] = @ + 1]
    /\ n' = n + 1
    /\ UNCHANGED <<bot_x, bot_y, running, vision, vision_flat, reward,
                   movement, pc, hist,
                   stop_seen, queries, after_stop, shown,
                   world_size, calls>>

\* Lines 27-30: one iteration of the scatter loop; the draws may coincide.
SpawnReward ==
    /\ pc = "spawn"
    /\ n < REWARD_AMOUNT
    /\ \E x \in Coords, y \in Coords :
          world' = [world EXCEPT ![<<y, x>>] = 1]
    /\ n' = n + 1
    /\ UNCHANGED <<bot_x, bot_y, running, vision, vision_flat, reward,
                   movement, pc, hist,
                   stop_seen, queries, after_stop, shown,
                   world_size, calls>>

\* Lines 27, 32-41: the scatter loop is exhausted; enter the game loop.
SpawnDone ==
    /\ pc = "spawn"
    /\ n = REWARD_AMOUNT
    /\ pc' = "loop"
    /\ init_count' = RewardCount(world)
    /\ UNCHANGED <<world, n, bot_x, bot_y, running, vision, vision_flat,
                   reward, movement, world0, last_x, last_y, last_movement,
                   prev_x, prev_y, prev_movement,
                   stop_seen, queries, after_stop, shown,
                   world_size, calls>>

\* after_stop with one more execution of the named step, counted only once
\* the QUIT event has been seen.
Count(step) ==
    IF stop_seen THEN [after_stop EXCEPT ![step] = @ + 1] ELSE after_stop

\* Line 43: the loop condition, tested once per iteration.
LoopTest ==
    /\ pc = "loop"
    /\ pc' = IF running THEN "events" ELSE "quit"
    /\ queries' = 0
    /\ UNCHANGED <<world, n, bot_x, bot_y, running, vision, vision_flat,
                   reward, movement, hist,
                   stop_seen, after_stop, shown,
                   world_size, calls>>

\* Variant of PollEvents: a QUIT event leaves the loop at once (a break)
\* instead of only clearing the flag.
PollEvents_Break ==
    /\ pc = "events"
    /\ \E quit \in BOOLEAN :
          /\ running' = IF quit THEN FALSE ELSE running
          /\ stop_seen' = (stop_seen \/ quit)
          /\ pc' = IF quit THEN "quit" ELSE "vision"
    /\ UNCHANGED <<world, n, bot_x, bot_y, vision, vision_flat, reward,
                   movement, hist,
                   queries, after_stop, shown,
                   world_size, calls>>

\* Lines 44-46: drain the event queue; a QUIT event clears the flag.
PollEvents ==
    /\ pc = "events"
    /\ \E quit \in BOOLEAN :
          /\ running' = IF quit THEN FALSE ELSE running
          /\ stop_seen' = (stop_seen \/ quit)
    /\ pc' = "vision"
    /\ UNCHANGED <<world, n, bot_x, bot_y, vision, vision_flat, reward,
                   movement, hist,
                   queries, after_stop, shown,
                   world_size, calls>>

\* Variant of VisionOf: the window is anchored at the bot's cell instead of
\* being centred on it (the "- BOT_VISION_RANGE" offset is lost).
VisionOf_Uncentred(w, x, y) ==
    [p \in VisionIdx \X VisionIdx |->
        w[<<(y + p[1]) % world_size, (x + p[2]) % world_size>>]]

\* Lines 49-54: the window around (x, y), read with wrap-around.
VisionOf(w, x, y) ==
    [p \in VisionIdx \X VisionIdx |->
        w[<<(y - BOT_VISION_RANGE + p[1]) % world_size,
            (x - BOT_VISION_RANGE + p[2]) % world_size>>]]

\* Line 56: numpy's flatten() of a 2-D array (C order), as a 1-based sequence.
Flatten(v) ==
    [k \in 1 .. (VISION_SIZE * VISION_SIZE) |->
        v[<<(k - 1) \div VISION_SIZE, (k - 1) % VISION_SIZE>>]]

\* Lines 48-56: get the bot's vision.
GetVision ==
    /\ pc = "vision"
    /\ vision' = VisionOf(world, bot_x, bot_y)
    /\ vision_flat' = Flatten(vision')
    /\ pc' = "reward"
    /\ world0' = world
    /\ UNCHANGED <<world, n, bot_x, bot_y, running, reward, movement,
                   init_count, last_x, last_y, last_movement,
                   prev_x, prev_y, prev_movement,
                   stop_seen, queries, after_stop, shown,
                   world_size, calls>>

\* Variant of CheckReward: the grid is indexed [x, y] instead of [y, x].
CheckReward_Swapped ==
    /\ pc = "reward"
    /\ reward' = world[<<bot_x, bot_y>>]
    /\ IF world[<<bot_x, bot_y>>] = 1
          THEN /\ world' = [world EXCEPT ![<<bot_x, bot_y>>] = 0]
               /\ pc' = "respawn"
          ELSE /\ world' = world
               /\ pc' = "choose"
    /\ after_stop' = Count("checks")
    /\ UNCHANGED <<n, bot_x, bot_y, running, vision, vision_flat, movement,
                   hist,
                   stop_seen, queries, shown,
                   world_size, calls>>

\* Variant of CheckReward: the collected reward is not removed before the
\* respawn search starts.
CheckReward_KeepsCell ==
    /\ pc = "reward"
    /\ reward' = world[<<bot_y, bot_x>>]
    /\ world' = world
    /\ pc' = IF world[<<bot_y, bot_x>>] = 1 THEN "respawn" ELSE "choose"
    /\ after_stop' = Count("checks")
    /\ UNCHANGED <<n, bot_x, bot_y, running, vision, vision_flat, movement,
                   hist,
                   stop_seen, queries, shown,
                   world_size, calls>>

\* Variant of CheckReward: line 75 sits inside the "if reward == 1" branch,
\* so a tick without a reward goes to the position update unqueried.
CheckReward_SkipsPolicy ==
    /\ pc = "reward"
    /\ reward' = world[<<bot_y, bot_x>>]
    /\ IF world[<<bot_y, bot_x>>] = 1
          THEN /\ world' = [world EXCEPT ![<<bot_y, bot_x>>] = 0]
               /\ pc' = "respawn"
          ELSE /\ world' = world
               /\ pc' = "move"
    /\ after_stop' = Count("checks")
    /\ UNCHANGED <<n, bot_x, bot_y, running, vision, vision_flat, movement,
                   hist,
                   stop_seen, queries, shown,
                   world_size, calls>>

\* Variant of CheckReward: "reward = 0" is dedented out of the else branch,
\* so the signal is lost after a collection.
CheckReward_NoSignal ==
    /\ pc = "reward"
    /\ reward' = 0
    /\ IF world[<<bot_y, bot_x>>] = 1
          THEN /\ world' = [world EXCEPT ![<<bot_y, bot_x>>] = 0]
               /\ pc' = "respawn"
          ELSE /\ world' = world
               /\ pc' = "choose"
    /\ after_stop' = Count("checks")
    /\ UNCHANGED <<n, bot_x, bot_y, running, vision, vision_flat, movement,
                   hist,
                   stop_seen, queries, shown,
                   world_size, calls>>

\* Lines 58-62, 71-72: check for a reward at the current position and
\* remove it; the respawn search follows only when one was collected.
CheckReward ==
    /\ pc = "reward"
    /\ reward' = world[<<bot_y, bot_x>>]
    /\ IF world[<<bot_y, bot_x>>] = 1
          THEN /\ world' = [world EXCEPT ![<<bot_y, bot_x>>] = 0]
               /\ pc' = "respawn"
          ELSE /\ world' = world
               /\ pc' = "choose"
    /\ after_stop' = Count("checks")
    /\ UNCHANGED <<n, bot_x, bot_y, running, vision, vision_flat, movement,
                   hist,
                   stop_seen, queries, shown,
                   world_size, calls>>

\* Variant of RespawnDraw: the first draw is taken without testing that the
\* cell is empty.
RespawnDraw_NoCheck(new_x, new_y) ==
    /\ pc = "respawn"
    /\ world' = [world EXCEPT ![<<new_y, new_x>>] = 1]
    /\ pc' = "choose"
    /\ UNCHANGED <<n, bot_x, bot_y, running, vision, vision_flat, reward,
                   movement, hist,
                   stop_seen, queries, after_stop, shown,
                   world_size, calls>>

\* Variant of RespawnDraw: the emptiness test reads [new_y, new_x] but the
\* reward is written to [new_x, new_y].
RespawnDraw_Transposed(new_x, new_y) ==
    /\ pc = "respawn"
    /\ IF world[<<new_y, new_x>>] = 0
          THEN /\ world' = [world EXCEPT ![<<new_x, new_y>>] = 1]
               /\ pc' = "choose"
          ELSE /\ world' = world
               /\ pc' = "respawn"
    /\ UNCHANGED <<n, bot_x, bot_y, running, vision, vision_flat, reward,
                   movement, hist,
                   stop_seen, queries, after_stop, shown,
                   world_size, calls>>

\* Lines 66-70: one iteration of the respawn search with the draw
\* (new_x, new_y): an empty cell takes the reward and ends the search, an
\* occupied one is rejected and the search draws again.
RespawnDraw(new_x, new_y) ==
    /\ pc = "respawn"
    /\ IF world[<<new_y, new_x>>] = 0
          THEN /\ world' = [world EXCEPT ![<<new_y, new_x>>] = 1]
               /\ pc' = "choose"
          ELSE /\ world' = world
               /\ pc' = "respawn"
    /\ UNCHANGED <<n, bot_x, bot_y, running, vision, vision_flat, reward,
                   movement, hist,
                   stop_seen, queries, after_stop, shown,
                   world_size, calls>>

\* Lines 65-70: the respawn search, over every draw of random.randint.
Respawn == \E new_x \in Coords, new_y \in Coords : RespawnDraw(new_x, new_y)

\* Line 75: ask the bot for a movement; the answer is the policy's choice.
ChooseAction ==
    /\ pc = "choose"
    /\ \E m \in PolicyOutputs : movement' = m
    /\ pc' = "move"
    /\ queries' = queries + 1
    /\ after_stop' = Count("queries")
    /\ UNCHANGED <<world, n, bot_x, bot_y, running, vision, vision_flat,
                   reward, hist,
                   stop_seen, shown,
                   world_size, calls>>

\* Line 75 with a scripted stub in place of AI_Bot: it answers Right (3) and
\* Down (1) alternately, Right first, whatever it is shown, and counts its
\* calls; the script is StubCalls answers long.
ChooseAlternating ==
    /\ pc = "choose"
    /\ calls < StubCalls
    /\ movement' = IF calls % 2 = 0 THEN 3 ELSE 1
    /\ calls' = calls + 1
    /\ pc' = "move"
    /\ queries' = queries + 1
    /\ after_stop' = Count("queries")
    /\ UNCHANGED <<world, n, bot_x, bot_y, running, vision, vision_flat,
                   reward, hist,
                   stop_seen, shown,
                   world_size>>

\* Variant of NextPos: Left and Right act on the row instead of the column.
NextPos_WrongAxis(m, x, y) ==
    IF m = 0 THEN <<x, (y - 1) % world_size>>
    ELSE IF m = 1 THEN <<x, (y + 1) % world_size>>
    ELSE IF m = 2 THEN <<x, (y - 1) % world_size>>
    ELSE IF m = 3 THEN <<x, (y + 1) % world_size>>
    ELSE <<x, y>>

\* Variant of NextPos: the grid has walls; a move off an edge stays put.
NextPos_Walled(m, x, y) ==
    IF m = 0 THEN <<x, IF y = 0 THEN 0 ELSE y - 1>>
    ELSE IF m = 1 THEN <<x, IF y = world_size - 1 THEN y ELSE y + 1>>
    ELSE IF m = 2 THEN <<IF x = 0 THEN 0 ELSE x - 1, y>>
    ELSE IF m = 3 THEN <<IF x = world_size - 1 THEN x ELSE x + 1, y>>
    ELSE <<x, y>>

\* Variant of NextPos: the "% WORLD_SIZE" reduction is lost.
NextPos_NoWrap(m, x, y) ==
    IF m = 0 THEN <<x, y - 1>>
    ELSE IF m = 1 THEN <<x, y + 1>>
    ELSE IF m = 2 THEN <<x - 1, y>>
    ELSE IF m = 3 THEN <<x + 1, y>>
    ELSE <<x, y>>

\* Lines 78-85: the position <<x, y>> after movement m; a value matching no
\* branch of the if/elif chain leaves the position as it is.
NextPos(m, x, y) ==
    IF m = 0 THEN <<x, (y - 1) % world_size>>
    ELSE IF m = 1 THEN <<x, (y + 1) % world_size>>
    ELSE IF m = 2 THEN <<(x - 1) % world_size, y>>
    ELSE IF m = 3 THEN <<(x + 1) % world_size, y>>
    ELSE <<x, y>>

\* Variant of UpdatePosition: the reward on the cell moved onto is collected
\* on arrival.
UpdatePosition_Collects ==
    /\ pc = "move"
    /\ bot_x' = NextPos(movement, bot_x, bot_y)[1]
    /\ bot_y' = NextPos(movement, bot_x, bot_y)[2]
    /\ world' = [world EXCEPT ![<<bot_y', bot_x'>>] = 0]
    /\ pc' = "draw"
    /\ last_x' = bot_x
    /\ last_y' = bot_y
    /\ last_movement' = movement
    /\ after_stop' = Count("moves")
    /\ UNCHANGED <<n, running, vision, vision_flat, reward, movement,
                   init_count, world0, prev_x, prev_y, prev_movement,
                   stop_seen, queries, shown,
                   world_size, calls>>

\* Variant of UpdatePosition: an unrecognised movement stops the loop.
UpdatePosition_StopsOnInvalid ==
    /\ pc = "move"
    /\ bot_x' = NextPos(movement, bot_x, bot_y)[1]
    /\ bot_y' = NextPos(movement, bot_x, bot_y)[2]
    /\ running' = IF movement \in Movements THEN running ELSE FALSE
    /\ pc' = "draw"
    /\ last_x' = bot_x
    /\ last_y' = bot_y
    /\ last_movement' = movement
    /\ after_stop' = Count("moves")
    /\ UNCHANGED <<world, n, vision, vision_flat, reward, movement,
                   init_count, world0, prev_x, prev_y, prev_movement,
                   stop_seen, queries, shown,
                   world_size, calls>>

\* Lines 77-85: update the bot position based on movement.
UpdatePosition ==
    /\ pc = "move"
    /\ bot_x' = NextPos(movement, bot_x, bot_y)[1]
    /\ bot_y' = NextPos(movement, bot_x, bot_y)[2]
    /\ pc' = "draw"
    /\ last_x' = bot_x
    /\ last_y' = bot_y
    /\ last_movement' = movement
    /\ after_stop' = Count("moves")
    /\ UNCHANGED <<world, n, running, vision, vision_flat, reward, movement,
                   init_count, world0, prev_x, prev_y, prev_movement,
                   stop_seen, queries, shown,
                   world_size, calls>>

\* Lines 77-85 again, also recording the position update before this one.
UpdatePositionTracked ==
    /\ pc = "move"
    /\ bot_x' = NextPos(movement, bot_x, bot_y)[1]
    /\ bot_y' = NextPos(movement, bot_x, bot_y)[2]
    /\ pc' = "draw"
    /\ last_x' = bot_x
    /\ last_y' = bot_y
    /\ last_movement' = movement
    /\ prev_x' = last_x
    /\ prev_y' = last_y
    /\ prev_movement' = last_movement
    /\ after_stop' = Count("moves")
    /\ UNCHANGED <<world, n, running, vision, vision_flat, reward, movement,
                   init_count, world0,
                   stop_seen, queries, shown,
                   world_size, calls>>

\* Lines 87-115: draw the world, the bot, the vision field and the network,
\* flip the display and wait for the frame; no program state is written.
Draw ==
    /\ pc = "draw"
    /\ pc' = "loop"
    /\ UNCHANGED <<world, n, bot_x, bot_y, running, vision, vision_flat,
                   reward, movement, hist,
                   stop_seen, queries, after_stop, shown,
                   world_size, calls>>

\* Lines 102-107: the cell outlined for window index <<i, j>> of the vision
\* field drawn around (x, y).
FieldOf(x, y) ==
    [p \in VisionIdx \X VisionIdx |->
        <<(y - BOT_VISION_RANGE + p[1]) % world_size,
          (x - BOT_VISION_RANGE + p[2]) % world_size>>]

\* Variant of DrawShown: the observation is extracted again, around the new
\* position on the current grid, before it is handed to the network view.
DrawShown_Recomputes ==
    /\ pc = "draw"
    /\ pc' = "loop"
    /\ shown' = [drawn |-> TRUE,
                 rewards |-> RewardCells(world),
                 bot |-> <<bot_x, bot_y>>,
                 field |-> FieldOf(bot_x, bot_y),
                 vision |-> VisionOf(world, bot_x, bot_y)]
    /\ UNCHANGED <<world, n, bot_x, bot_y, running, vision, vision_flat,
                   reward, movement, hist,
                   stop_seen, queries, after_stop,
                   world_size, calls>>

\* Lines 87-115 again, recording what is drawn: the reward cells (95-97),
\* the bot (100), the vision field (103-107) and the observation handed to
\* ai_bot.draw_neural_network (112).
DrawShown ==
    /\ pc = "draw"
    /\ pc' = "loop"
    /\ shown' = [drawn |-> TRUE,
                 rewards |-> RewardCells(world),
                 bot |-> <<bot_x, bot_y>>,
                 field |-> FieldOf(bot_x, bot_y),
                 vision |-> vision]
    /\ UNCHANGED <<world, n, bot_x, bot_y, running, vision, vision_flat,
                   reward, movement, hist,
                   stop_seen, queries, after_stop,
                   world_size, calls>>

\* Line 117: pygame.quit() after the loop.
Quit ==
    /\ pc = "quit"
    /\ pc' = "done"
    /\ UNCHANGED <<world, n, bot_x, bot_y, running, vision, vision_flat,
                   reward, movement, hist,
                   stop_seen, queries, after_stop, shown,
                   world_size, calls>>

Next ==
    \/ SpawnReward
    \/ SpawnDone
    \/ LoopTest
    \/ PollEvents
    \/ GetVision
    \/ CheckReward
    \/ Respawn
    \/ ChooseAction
    \/ UpdatePosition
    \/ Draw
    \/ Quit

Spec == Init /\ [][Next]_vars

\* The same script with the two-updates-deep history switched on.
NextTracked ==
    \/ SpawnReward
    \/ SpawnDone
    \/ LoopTest
    \/ PollEvents
    \/ GetVision
    \/ CheckReward
    \/ Respawn
    \/ ChooseAction
    \/ UpdatePositionTracked
    \/ Draw
    \/ Quit

TrackSpec == Init /\ [][NextTracked]_vars

\* The same script with the drawing step recording its output.
NextRender ==
    \/ SpawnReward
    \/ SpawnDone
    \/ LoopTest
    \/ PollEvents
    \/ GetVision
    \/ CheckReward
    \/ Respawn
    \/ ChooseAction
    \/ UpdatePosition
    \/ DrawShown
    \/ Quit

RenderSpec == Init /\ [][NextRender]_vars

\* The ordering scenario: the grid has size 10 and the scatter has ended with
\* every draw on (3, 3), so a single reward lies there; the bot is at (1, 1)
\* and the game loop is about to start.
ScenarioInit ==
    /\ world_size = 10
    /\ calls = 0
    /\ world = [c \in Cells |-> IF c = <<3, 3>> THEN 1 ELSE 0]
    /\ n = REWARD_AMOUNT
    /\ bot_x = 1
    /\ bot_y = 1
    /\ running = TRUE
    /\ vision = [p \in VisionIdx \X VisionIdx |-> 0]
    /\ vision_flat = << >>
    /\ reward = 0
    /\ movement = NoMovement
    /\ pc = "loop"
    /\ init_count = 1
    /\ world0 = [c \in Cells |-> 0]
    /\ last_x = 1
    /\ last_y = 1
    /\ last_movement = NoMovement
    /\ prev_x = 1
    /\ prev_y = 1
    /\ prev_movement = NoMovement
    /\ stop_seen = FALSE
    /\ queries = 0
    /\ after_stop = [checks |-> 0, queries |-> 0, moves |-> 0]
    /\ shown = [drawn |-> FALSE,
                rewards |-> {},
                bot |-> <<1, 1>>,
                field |-> [p \in VisionIdx \X VisionIdx |-> <<0, 0>>],
                vision |-> [p \in VisionIdx \X VisionIdx |-> 0]]

\* The game loop driven by the scripted stub policy.
NextScenario ==
    \/ LoopTest
    \/ PollEvents
    \/ GetVision
    \/ CheckReward
    \/ Respawn
    \/ ChooseAlternating
    \/ UpdatePosition
    \/ Draw
    \/ Quit

ScenarioSpec == ScenarioInit /\ [][NextScenario]_vars

\* The interpreter runs the reward check once it is reached, and the respawn
\* search is fair to the draws that end it (each has probability >= 1/N^2).
FairSpec == Spec /\ WF_vars(CheckReward) /\ WF_vars(Respawn)

TypeOK ==
    /\ world \in [Cells -> {0, 1}]
    /\ world0 \in [Cells -> {0, 1}]
    /\ n \in 0 .. REWARD_AMOUNT
    /\ running \in BOOLEAN
    /\ vision \in [VisionIdx \X VisionIdx -> {0, 1}]
    /\ reward \in {0, 1}
    /\ movement \in PolicyOutputs \cup {NoMovement}
    /\ pc \in {"spawn", "loop", "events", "vision", "reward", "respawn",
               "choose", "move", "draw", "quit", "done"}

----------------------------------------------------------------------------
\* Vocabulary of the properties below.

\* The bot's cell.
BotCell == <<bot_y, bot_x>>

\* The cell the bot stood on before the most recent position update.
LastCell == <<last_y, last_x>>

\* Cells whose content differs between two grids.
Diff(w1, w2) == {c \in Cells : w1[c] # w2[c]}

\* k brought onto 0 .. WORLD_SIZE-1 by stepping whole grid widths.
RECURSIVE Residue(_)
Residue(k) ==
    IF k < 0 THEN Residue(k + WORLD_SIZE)
    ELSE IF k >= WORLD_SIZE THEN Residue(k - WORLD_SIZE)
    ELSE k

\* One step down / up a coordinate axis with wrap-around, by cases.
Dec(k) == IF k = 0 THEN WORLD_SIZE - 1 ELSE k - 1

Inc(k) == IF k = WORLD_SIZE - 1 THEN 0 ELSE k + 1

\* The scatter loop has ended and the game loop has been entered.
AfterScatter == pc \notin {"spawn"}

----------------------------------------------------------------------------
\* C1: Reward count conservation.  Once the scatter loop has ended, the
\* number of reward cells equals the number counted right after it at every
\* statement group of the loop except inside the respawn search, where
\* exactly one reward (the collected one) is missing; a tick that collects
\* nothing leaves the count as it was.
C1_RewardCountConserved ==
    /\ (AfterScatter /\ pc # "respawn") => RewardCount(world) = init_count
    /\ pc = "respawn" => RewardCount(world) = init_count - 1
    /\ (pc \in {"choose", "move"} /\ reward = 0) => world = world0

\* A tick has collected a reward, respawned it and finished its move.
C1_Witness ==
    /\ pc = "draw"
    /\ reward = 1
    /\ world # world0
    /\ RewardCount(world) = init_count

\* C2: Reward is resolved before the move, at the pre-move position.  The
\* reward handed to choose_action is the content the bot's cell had when the
\* tick started; the check clears that cell; the check and the respawn do not
\* move the bot; when the position is about to change the respawn is done;
\* and the position update neither signals nor clears anything.
C2_RewardBeforeMove ==
    [][ /\ (pc' = "choose" => reward' = world0'[<<bot_y', bot_x'>>])
        /\ ((pc = "reward" /\ world[BotCell] = 1) => world'[BotCell] = 0)
        /\ (pc \in {"reward", "respawn"} => (bot_x' = bot_x /\ bot_y' = bot_y))
        /\ ((pc = "move" /\ reward = 1) =>
                RewardCount(world) = RewardCount(world0))
        /\ (pc = "move" => (world' = world /\ reward' = reward))
      ]_vars

\* The bot has just moved onto a reward cell in a tick whose reward signal
\* was 0: the reward there is still in place and unsignalled.
C2_Witness ==
    /\ pc = "draw"
    /\ movement \in Movements
    /\ reward = 0
    /\ world[BotCell] = 1
    /\ world0[LastCell] = 0

\* C3: Invalid action is an error.  When choose_action has returned a value
\* outside the four recognised movements, the tick does not go on to the
\* drawing step (it ends in an error) and the position is not changed.
C3_InvalidActionIsError ==
    [][ (pc = "move" /\ movement \notin Movements) =>
            (pc' # "draw" /\ bot_x' = bot_x /\ bot_y' = bot_y) ]_vars

\* C4 as claimed: right after the reward check and respawn of a tick that
\* collected a reward, the bot's own cell is empty.
C4_RespawnOnDistinctCell ==
    (pc = "choose" /\ reward = 1) => world[BotCell] = 0

\* C4 as amended: the step that ends the respawn search puts the reward on
\* exactly one cell that was empty when drawn and changes nothing else; the
\* cell just collected is among the candidates, and when every other cell
\* holds a reward the respawn lands on the bot's own cell.
C4_RespawnOnEmptyCell ==
    [][ (pc = "respawn" /\ pc' = "choose") =>
            /\ \E c \in Cells :
                  /\ world[c] = 0
                  /\ world' = [world EXCEPT ![c] = 1]
            /\ (RewardCount(world0) = Cardinality(Cells) =>
                    world'[BotCell] = 1)
      ]_vars

\* A reward was collected and its respawn landed on the cell just collected.
C4_Witness ==
    /\ pc = "choose"
    /\ reward = 1
    /\ world[BotCell] = 1
    /\ world = world0

\* C5: The respawn search always terminates.  Whenever the search runs there
\* is an empty cell to find, and under fair draws every tick that reaches the
\* reward check goes on to the policy query.
C5_RespawnTerminates ==
    /\ [](pc = "respawn" => EmptyCells(world) # {})
    /\ ((pc = "reward") ~> (pc = "choose"))

\* The search has ended on a grid that was full before the collection.
C5_Witness ==
    /\ pc = "choose"
    /\ reward = 1
    /\ RewardCount(world0) = Cardinality(Cells)
    /\ RewardCount(world) = Cardinality(Cells)

\* C6: The grid is written only by the reward check and the respawn.  Every
\* other statement group leaves every cell unchanged; at the end of a tick
\* the grid equals the grid at its start when the bot's cell held no reward,
\* and otherwise differs from it in at most two cells, the collected cell
\* and a cell that was empty.
C6_GridFrame ==
    [][ /\ (pc \in {"loop", "events", "vision", "choose", "move", "draw",
                    "quit"} => world' = world)
        /\ ((pc' = "draw" \/ pc = "draw") =>
               IF world0'[<<last_y', last_x'>>] = 0
                  THEN world' = world0'
                  ELSE /\ Cardinality(Diff(world', world0')) <= 2
                       /\ Diff(world', world0') \subseteq
                             ({<<last_y', last_x'>>} \cup EmptyCells(world0')))
      ]_vars

\* A tick ends with exactly the collected cell and the respawn cell changed.
C6_Witness ==
    /\ pc = "loop"
    /\ reward = 1
    /\ Cardinality(Diff(world, world0)) = 2
    /\ LastCell \in Diff(world, world0)

\* C7: Vision extraction with toroidal addressing.  From the vision step to
\* the position update, observation cell (i, j) is the cell of the tick's
\* starting grid at row (y - half + i) and column (x - half + j) reduced to
\* the grid, every index read is on the grid, for odd VISION_SIZE the centre
\* is the bot's cell, and the flattened observation is row-major.
C7_VisionToroidal ==
    pc \in {"reward", "respawn", "choose", "move"} =>
        /\ \A i \in VisionIdx, j \in VisionIdx :
              /\ (bot_y - BOT_VISION_RANGE + i) % WORLD_SIZE \in Coords
              /\ (bot_x - BOT_VISION_RANGE + j) % WORLD_SIZE \in Coords
              /\ vision[<<i, j>>] =
                    world0[<<Residue(bot_y - BOT_VISION_RANGE + i),
                             Residue(bot_x - BOT_VISION_RANGE + j)>>]
              /\ vision_flat[i * VISION_SIZE + j + 1] = vision[<<i, j>>]
        /\ DOMAIN vision_flat = 1 .. (VISION_SIZE * VISION_SIZE)
        /\ (VISION_SIZE % 2 = 1 =>
                vision[<<BOT_VISION_RANGE, BOT_VISION_RANGE>>] = world0[BotCell])

\* A window that straddles the grid edge and sees both a reward and an empty
\* cell, with the bot's own cell holding a reward.
C7_Witness ==
    /\ pc = "reward"
    /\ bot_x = 0
    /\ bot_y = WORLD_SIZE - 1
    /\ world[BotCell] = 1
    /\ vision[<<0, 0>>] # vision[<<BOT_VISION_RANGE, BOT_VISION_RANGE>>]

C10_BotOnGrid ==
    /\ bot_x \in Coords
    /\ bot_y \in Coords
    /\ BotCell \in DOMAIN world

\* The bot has just wrapped from the last column to column 0 on row 0.
C10_Witness ==
    /\ pc = "draw"
    /\ bot_x = 0
    /\ bot_y = 0
    /\ last_x = WORLD_SIZE - 1
    /\ last_y = 0
    /\ last_movement = 3

\* C13: Loop termination only on an external stop, at a tick boundary.  The
\* running flag is cleared only by the event poll at the start of a tick and
\* only when a QUIT event is seen; the loop is left only from the loop test,
\* only after a QUIT was seen, and never without one; and the loop test is
\* reached only from the drawing step (the tick begun is complete) or from
\* the end of the scatter.
C13_ExitOnlyOnStop ==
    [][ /\ (running' # running =>
               (pc = "events" /\ running /\ ~running' /\ stop_seen'))
        /\ ((pc' = "quit" /\ pc # "quit") => (pc = "loop" /\ stop_seen))
        /\ ((pc = "loop" /\ ~stop_seen) => pc' = "events")
        /\ ((pc' = "loop" /\ pc # "loop") => pc \in {"draw", "spawn"})
        /\ ((pc' \in {"quit", "done"}) => (stop_seen' /\ ~running'))
      ]_vars

\* The loop has been left after a QUIT event, its last tick drawn.
C13_Witness ==
    /\ pc = "quit"
    /\ stop_seen
    /\ ~running
    /\ last_movement \in Movements
    /\ <<bot_x, bot_y>> = NextPos(last_movement, last_x, last_y)

\* C15: Tick step order and single policy query.  The statement groups of a
\* tick follow one another in the order events, vision, reward check (with
\* its respawn search), policy query, position update, drawing, and only
\* then the next loop test; choose_action is called exactly once per tick,
\* after the reward check and before the position update.
C15_TickOrder ==
    [][ /\ (pc = "loop" => pc' \in {"events", "quit"})
        /\ (pc = "events" => pc' = "vision")
        /\ (pc = "vision" => pc' = "reward")
        /\ (pc = "reward" => pc' \in {"respawn", "choose"})
        /\ (pc = "respawn" => pc' = "choose")
        /\ (pc = "choose" => (pc' = "move" /\ queries = 0 /\ queries' = 1))
        /\ (pc = "move" => (pc' = "draw" /\ queries = 1 /\ queries' = 1))
        /\ (pc = "draw" => (pc' = "loop" /\ queries = 1 /\ queries' = 1))
        /\ (pc \in {"events", "vision", "reward", "respawn"} =>
               (queries = 0 /\ queries' = 0))
      ]_vars

\* A tick that went through the respawn search has been drawn with exactly
\* one policy query, and the loop is about to start the next tick.
C15_Witness ==
    /\ pc = "loop"
    /\ running
    /\ queries = 1
    /\ reward = 1
    /\ movement \in Movements

\* C16: The initial scatter may under-place but never over-places.  During
\* the scatter every cell holds 0 or 1 and the reward cells number at least 1
\* (once a draw was made) and at most the draws made; the count the game
\* loop starts with is between 1 and min(REWARD_AMOUNT, WORLD_SIZE^2).
C16_ScatterBounds ==
    /\ \A c \in Cells : world[c] \in {0, 1}
    /\ pc = "spawn" =>
          /\ RewardCount(world) <= n
          /\ (n >= 1 => RewardCount(world) >= 1)
    /\ (AfterScatter /\ REWARD_AMOUNT >= 1) =>
          /\ init_count >= 1
          /\ init_count <= REWARD_AMOUNT
          /\ init_count <= WORLD_SIZE * WORLD_SIZE
    /\ (pc = "loop" /\ movement = NoMovement) =>
          RewardCount(world) = init_count

\* The game loop starts with fewer rewards than draws (two draws coincided)
\* and with a reward on the bot's start cell (1, 1).
C16_Witness ==
    /\ pc = "loop"
    /\ movement = NoMovement
    /\ init_count < REWARD_AMOUNT
    /\ world[<<1, 1>>] = 1
    /\ bot_x = 1
    /\ bot_y = 1

\* C17: Observation and reward signal agree.  In the call of choose_action,
\* for odd VISION_SIZE the centre element of the flattened observation
\* equals the reward argument, and every element of the observation shows
\* the grid as it was before this tick's collection and respawn.
C17_ObservationMatchesReward ==
    pc \in {"choose", "move"} =>
        /\ (VISION_SIZE % 2 = 1 =>
               vision_flat[BOT_VISION_RANGE * VISION_SIZE
                           + BOT_VISION_RANGE + 1] = reward)
        /\ \A i \in VisionIdx, j \in VisionIdx :
              vision_flat[i * VISION_SIZE + j + 1] =
                  world0[<<Residue(bot_y - BOT_VISION_RANGE + i),
                           Residue(bot_x - BOT_VISION_RANGE + j)>>]

\* choose_action is about to be called with reward 1 and an observation that
\* still shows the collected reward, which the grid no longer holds.
C17_Witness ==
    /\ pc = "choose"
    /\ reward = 1
    /\ VISION_SIZE % 2 = 1
    /\ vision_flat[BOT_VISION_RANGE * VISION_SIZE + BOT_VISION_RANGE + 1] = 1
    /\ world[BotCell] = 0

\* C18: A stop request does not suppress the tick in which it is observed.
\* Nothing is counted before a QUIT event is seen; after it, the tick that
\* saw it runs exactly one reward check, one policy query and one position
\* update, the next loop test leaves the loop, and nothing more is run.
C18_StopTickRunsFully ==
    [][ /\ (~stop_seen' =>
               after_stop' = [checks |-> 0, queries |-> 0, moves |-> 0])
        /\ ((stop_seen' /\ pc' \in {"draw", "loop", "quit", "done"}) =>
               after_stop' = [checks |-> 1, queries |-> 1, moves |-> 1])
        /\ ((stop_seen /\ ~stop_seen') => FALSE)
        /\ ((~stop_seen /\ stop_seen') => (pc = "events" /\ pc' = "vision"))
        /\ ((stop_seen /\ pc = "loop") => pc' = "quit")
      ]_vars

\* The loop was left after a QUIT event whose tick still collected a reward,
\* queried the policy and moved the bot.
C18_Witness ==
    /\ pc = "done"
    /\ stop_seen
    /\ after_stop = [checks |-> 1, queries |-> 1, moves |-> 1]
    /\ reward = 1
    /\ last_movement \in Movements
    /\ <<bot_x, bot_y>> # <<last_x, last_y>>

\* The grid content the drawing shows at the cell outlined for window index
\* p: 1 when that cell is among the reward cells drawn, else 0.
ShownAt(p) == IF shown.field[p] \in shown.rewards THEN 1 ELSE 0

\* C14 as claimed: the observation handed to the display hook is the vision
\* window of the grid and bot position drawn in the same step.
C14_RenderSnapshotCurrent ==
    shown.drawn =>
        \A p \in VisionIdx \X VisionIdx : shown.vision[p] = ShownAt(p)

\* C14 as amended: the reward cells, the bot and the vision field drawn are
\* those of the grid after this tick's collection and of the position after
\* its move, while the observation handed to the display hook is the one
\* computed at the start of the tick and passed to choose_action: the window
\* centred on the position before the move, over the grid before the
\* collection.
C14_RenderSnapshotOfTickStart ==
    (pc = "loop" /\ shown.drawn) =>
        /\ shown.rewards = RewardCells(world)
        /\ shown.bot = <<bot_x, bot_y>>
        /\ shown.vision = vision
        /\ \A i \in VisionIdx, j \in VisionIdx :
              /\ shown.field[<<i, j>>] =
                    <<Residue(bot_y - BOT_VISION_RANGE + i),
                      Residue(bot_x - BOT_VISION_RANGE + j)>>
              /\ shown.vision[<<i, j>>] =
                    world0[<<Residue(last_y - BOT_VISION_RANGE + i),
                             Residue(last_x - BOT_VISION_RANGE + j)>>]

\* A tick that collected a reward and moved has been drawn, and the
\* observation shown differs from the grid drawn inside the vision field.
C14_Witness ==
    /\ pc = "loop"
    /\ shown.drawn
    /\ reward = 1
    /\ last_movement \in Movements
    /\ \E p \in VisionIdx \X VisionIdx : shown.vision[p] # ShownAt(p)

\* C12: Ordering scenario.  On a grid of size 10 with a single reward at
\* (3, 3), the bot starting at (1, 1) and a policy answering Right, Down,
\* Right, Down, ...: after ticks 0, 1, 2, 3 the bot is at (2, 1), (2, 2),
\* (3, 2), (3, 3); the reward signal is 0 in ticks 0 to 3 and the reward at
\* (3, 3) is still the only one when tick 3 ends; tick 4's reward check
\* collects it (signal 1, cell cleared, one respawn) before tick 4's move.
\* The tick in progress is the number of calls the stub has answered, less
\* one from its call to the end of the tick's drawing.
C12_OrderingScenario ==
    /\ world_size = 10
    /\ (calls = 0 /\ pc # "move") => <<bot_x, bot_y>> = <<1, 1>>
    /\ (calls = 1 /\ pc # "move") => <<bot_x, bot_y>> = <<2, 1>>
    /\ (calls = 2 /\ pc # "move") => <<bot_x, bot_y>> = <<2, 2>>
    /\ (calls = 3 /\ pc # "move") => <<bot_x, bot_y>> = <<3, 2>>
    /\ (calls = 4 /\ pc # "move") => <<bot_x, bot_y>> = <<3, 3>>
    /\ (calls \in 0 .. 3 /\ pc = "choose") => reward = 0
    /\ (calls \in 1 .. 4 /\ pc \in {"move", "draw", "loop"}) => reward = 0
    /\ (calls \in 0 .. 3 \/ (calls = 4 /\ pc \in {"move", "draw", "loop",
                                                  "events", "vision",
                                                  "reward", "quit", "done"}))
          => RewardCells(world) = {<<3, 3>>}
    /\ (calls = 4 /\ pc = "respawn") => RewardCells(world) = {}
    /\ (calls = 4 /\ pc = "choose") =>
          /\ reward = 1
          /\ RewardCount(world) = 1
          /\ world0[<<3, 3>>] = 1
    /\ (calls = 5 /\ pc = "move") =>
          /\ reward = 1
          /\ <<bot_x, bot_y>> = <<3, 3>>
          /\ RewardCount(world) = 1

\* Tick 4 has collected the reward at (3, 3), respawned it elsewhere and
\* been answered Right; the bot is still on (3, 3), about to move.
C12_Witness ==
    /\ pc = "move"
    /\ calls = 5
    /\ movement = 3
    /\ reward = 1
    /\ <<bot_x, bot_y>> = <<3, 3>>
    /\ world[<<3, 3>>] = 0
    /\ RewardCount(world) = 1

====
